---- MODULE Spec2Model ----
(***************************************************************************)
(* Model of the rclone reconciliation engine of pass-ssh-unpack            *)
(* (src/src/rclone.rs): the in-memory configuration session, the actual-   *)
(* state readers, the reconciler, the two mutation backends and the two    *)
(* entry points sync_remotes and purge_managed_remotes.                    *)
(*                                                                         *)
(* A configuration text is a sequence of lines.  A line is a triple        *)
(*   <<"hdr", name, shape>>  a line "[name]"; shape says how it is padded  *)
(*   <<"kv", key, value>>    a line "key = value"                          *)
(*   <<"blank", "", "">>     an empty line                                 *)
(* The backing file is a record [enc, key, text]: text is the plaintext    *)
(* the file holds, enc says whether the bytes on disk are that text        *)
(* encrypted, and key is the password it is encrypted with.                *)
(***************************************************************************)
EXTENDS Integers, Sequences, FiniteSets, TLC

\* ------------------------------------------------------------------------
\* Bounds and universes
\* ------------------------------------------------------------------------

\* longest list of RcloneEntry handed to sync_remotes
MaxEntries == 2

\* most calls of finalize on one session
MaxFinalizeCalls == 2

\* most sections of a text handed to the text functions on their own
MaxSections == 2

\* absent Option value
NONE == "<none>"

\* the ownership marker
MARKER == "managed by pass-ssh-unpack"

\* profile names, in lexicographic order
NameOrder == <<"a", "b">>

Names == {NameOrder[i] : i \in 1..Len(NameOrder)}

\* passwords: P1 is the one the store is encrypted with when it is
P1 == "p1"

P2 == "p2"

Passwords == {P1, P2}

\* the key files that exist on the local filesystem (after tilde expansion)
HOME == "/home"

ExistingFiles == {"/k"}

\* ------------------------------------------------------------------------
\* Strings: the conversions the code applies, on the strings of the model
\* ------------------------------------------------------------------------

\* str::trim on the values of the model: " h1" is the one padded value
Trim(s) == IF s = " h1" THEN "h1" ELSE s

\* format!("{}:", target)
WithColon(t) == t \o ":"

\* str::trim_end_matches(':'): strips every trailing colon
TrimEndColons(s) ==
    IF \E n \in Names : s \in {n \o ":", n \o "::"}
    THEN CHOOSE n \in Names : s \in {n \o ":", n \o "::"}
    ELSE s

\* config::expand_tilde
expand_tilde(path) == IF path = "~/m" THEN HOME \o "/m" ELSE path

\* ------------------------------------------------------------------------
\* Lines
\* ------------------------------------------------------------------------

Hdr(n) == <<"hdr", n, "exact">>

KV(k, v) == <<"kv", k, v>>

Blank == <<"blank", "", "">>

\* line.starts_with('[') on the raw line: a header padded on the left does
\* not start with '['
StartsWithBracket(line) == line[1] = "hdr" /\ line[3] \in {"exact", "trail"}

\* line.trim() starts with '[' and ends with ']'
IsTrimmedHeader(line) == line[1] = "hdr" /\ line[3] \in {"exact", "lead", "trail"}

\* line == format!("[{}]", section_name)
IsExactHeader(line, name) == line = Hdr(name)

\* ------------------------------------------------------------------------
\* remove_ini_section
\* ------------------------------------------------------------------------

RECURSIVE RemoveLoop(_, _, _, _)
RemoveLoop(lines, name, skip, result) ==
    IF lines = <<>> THEN result
    ELSE LET line == Head(lines)
             skip2 == IF StartsWithBracket(line)
                      THEN IsExactHeader(line, name)
                      ELSE skip
         IN RemoveLoop(Tail(lines), name, skip2,
                       IF skip2 THEN result ELSE Append(result, line))

remove_ini_section(content, section_name) ==
    RemoveLoop(content, section_name, FALSE, <<>>)

delete_remote_in_memory(content, name) == remove_ini_section(content, name)

\* ------------------------------------------------------------------------
\* RcloneRemote, fields_to_remote, parse_ini_config
\* ------------------------------------------------------------------------

EmptyMap == <<>>

Get(fields, k) == IF k \in DOMAIN fields THEN fields[k] ELSE NONE

Put(map, k, v) == (k :> v) @@ map

fields_to_remote(fields) ==
    [remote_type    |-> Get(fields, "type"),
     description    |-> Get(fields, "description"),
     key_file       |-> Get(fields, "key_file"),
     remote         |-> Get(fields, "remote"),
     host           |-> Get(fields, "host"),
     user           |-> Get(fields, "user"),
     ssh            |-> Get(fields, "ssh"),
     server_command |-> Get(fields, "server_command")]

\* fields_to_remote returns None when the section has no type key
HasType(fields) == "type" \in DOMAIN fields

SaveSection(remotes, section, fields) ==
    IF section # NONE /\ HasType(fields)
    THEN Put(remotes, section, fields_to_remote(fields))
    ELSE remotes

RECURSIVE ParseLoop(_, _, _, _)
ParseLoop(lines, remotes, section, fields) ==
    IF lines = <<>> THEN SaveSection(remotes, section, fields)
    ELSE LET line == Head(lines) IN
         IF IsTrimmedHeader(line)
         THEN ParseLoop(Tail(lines), SaveSection(remotes, section, fields),
                        line[2], EmptyMap)
         ELSE IF line[1] = "kv"
         THEN ParseLoop(Tail(lines), remotes, section,
                        Put(fields, Trim(line[2]), Trim(line[3])))
         ELSE ParseLoop(Tail(lines), remotes, section, fields)

parse_ini_config(content) == ParseLoop(content, EmptyMap, NONE, EmptyMap)

\* ------------------------------------------------------------------------
\* DesiredRemote and the desired mapping built from the entries
\* ------------------------------------------------------------------------

Sftp(host, user, key_file, ssh, server_command) ==
    [kind |-> "sftp", host |-> host, user |-> user, key_file |-> key_file,
     ssh |-> ssh, server_command |-> server_command, target |-> NONE]

Alias(target) ==
    [kind |-> "alias", host |-> NONE, user |-> NONE, key_file |-> NONE,
     ssh |-> NONE, server_command |-> NONE, target |-> target]

\* other_aliases.split(',').map(trim).filter(non-empty), then the self-alias
\* test: other_aliases is held as the sequence of its comma-separated pieces
RECURSIVE InsertAliases(_, _, _)
InsertAliases(map, pieces, remote_name) ==
    IF pieces = <<>> THEN map
    ELSE LET alias_name == Trim(Head(pieces)) IN
         InsertAliases(IF alias_name # "" /\ alias_name # remote_name
                       THEN Put(map, alias_name, Alias(remote_name))
                       ELSE map,
                       Tail(pieces), remote_name)

RECURSIVE BuildDesired(_, _)
BuildDesired(entries, map) ==
    IF entries = <<>> THEN map
    ELSE LET entry == Head(entries) IN
         IF entry.remote_name = "" THEN BuildDesired(Tail(entries), map)
         ELSE BuildDesired(Tail(entries),
                InsertAliases(
                  Put(map, entry.remote_name,
                      Sftp(entry.host, entry.user,
                           IF entry.key_file = "" THEN NONE ELSE entry.key_file,
                           entry.ssh, entry.server_command)),
                  entry.other_aliases, entry.remote_name))

desired_remotes(entries) == BuildDesired(entries, EmptyMap)

\* ------------------------------------------------------------------------
\* remote_matches
\* ------------------------------------------------------------------------

\* remote_matches without the comparison of key_file
remote_matches_no_key(existing, desired) ==
    IF desired.kind = "sftp"
    THEN /\ existing.remote_type = "sftp"
         /\ existing.host = desired.host
         /\ existing.user = desired.user
         /\ existing.ssh = desired.ssh
         /\ existing.server_command = desired.server_command
    ELSE /\ existing.remote_type = "alias"
         /\ existing.remote # NONE
         /\ TrimEndColons(existing.remote) = desired.target

remote_matches(existing, desired) ==
    IF desired.kind = "sftp"
    THEN /\ existing.remote_type = "sftp"
         /\ existing.host = desired.host
         /\ existing.user = desired.user
         /\ existing.key_file = desired.key_file
         /\ existing.ssh = desired.ssh
         /\ existing.server_command = desired.server_command
    ELSE /\ existing.remote_type = "alias"
         /\ existing.remote # NONE
         /\ TrimEndColons(existing.remote) = desired.target

\* existing.description.as_deref() == Some("managed by pass-ssh-unpack")
IsManaged(existing) == existing.description = MARKER

\* ------------------------------------------------------------------------
\* create_remote_in_memory
\* ------------------------------------------------------------------------

OptLine(k, v) == IF v = NONE THEN <<>> ELSE <<KV(k, v)>>

RenderSection(name, desired) ==
    IF desired.kind = "sftp"
    THEN <<Hdr(name), KV("type", "sftp"), KV("host", desired.host),
           KV("user", desired.user)>>
         \o (IF desired.key_file # NONE
             THEN <<KV("key_file", desired.key_file)>>
             ELSE <<KV("ask_password", "true")>>)
         \o OptLine("ssh", desired.ssh)
         \o OptLine("server_command", desired.server_command)
         \o <<KV("description", MARKER)>>
    ELSE <<Hdr(name), KV("type", "alias"),
           KV("remote", WithColon(desired.target)),
           KV("description", MARKER)>>

\* every line of a text ends with its newline (remove_ini_section rebuilds
\* the content line by line), so the section is appended as it is
create_remote_in_memory(content, name, desired) ==
    remove_ini_section(content, name) \o RenderSection(name, desired)

\* ------------------------------------------------------------------------
\* The reconciler: the classification loop and the full-mode delete loop of
\* sync_remotes
\* ------------------------------------------------------------------------

\* desired_names.sort(): the names of a set in lexicographic order
SortedNames(S) ==
    LET F[i \in 0..Len(NameOrder)] ==
          IF i = 0 THEN <<>>
          ELSE IF NameOrder[i] \in S THEN Append(F[i-1], NameOrder[i])
               ELSE F[i-1]
    IN F[Len(NameOrder)]

EmptyPlan ==
    [to_create |-> <<>>, to_update |-> <<>>, to_delete |-> <<>>,
     unchanged |-> <<>>, skipped_unmanaged |-> <<>>]

\* an unmanaged name is pushed to skipped_unmanaged and the loop continues
\* with the next name
SkipsUnmanaged(existing) == ~IsManaged(existing)

\* the classification loop without the continue after the push to
\* skipped_unmanaged: the name is classified a second time
RECURSIVE ClassifyLoopNoContinue(_, _, _, _)
ClassifyLoopNoContinue(names, desired, current, plan) ==
    IF names = <<>> THEN plan
    ELSE LET name == Head(names)
             rest == Tail(names)
             p1 == IF name \in DOMAIN current /\ SkipsUnmanaged(current[name])
                   THEN [plan EXCEPT !.skipped_unmanaged = Append(@, name)]
                   ELSE plan
         IN
         IF name \in DOMAIN current
         THEN IF remote_matches(current[name], desired[name])
              THEN ClassifyLoopNoContinue(rest, desired, current,
                     [p1 EXCEPT !.unchanged = Append(@, name)])
              ELSE ClassifyLoopNoContinue(rest, desired, current,
                     [p1 EXCEPT !.to_update = Append(@, name)])
         ELSE ClassifyLoopNoContinue(rest, desired, current,
                     [p1 EXCEPT !.to_create = Append(@, name)])

RECURSIVE ClassifyLoop(_, _, _, _)
ClassifyLoop(names, desired, current, plan) ==
    IF names = <<>> THEN plan
    ELSE LET name == Head(names)
             rest == Tail(names)
         IN
         IF name \in DOMAIN current
         THEN IF SkipsUnmanaged(current[name])
              THEN ClassifyLoop(rest, desired, current,
                     [plan EXCEPT !.skipped_unmanaged = Append(@, name)])
              ELSE IF remote_matches(current[name], desired[name])
              THEN ClassifyLoop(rest, desired, current,
                     [plan EXCEPT !.unchanged = Append(@, name)])
              ELSE ClassifyLoop(rest, desired, current,
                     [plan EXCEPT !.to_update = Append(@, name)])
         ELSE ClassifyLoop(rest, desired, current,
                     [plan EXCEPT !.to_create = Append(@, name)])

\* the full-mode loop without the ownership test
DeleteNamesAnyOwner(desired, current, full) ==
    IF full
    THEN {n \in DOMAIN current : n \notin DOMAIN desired}
    ELSE {}

\* the names the full-mode loop pushes to to_delete
DeleteNames(desired, current, full_mode) ==
    IF full_mode
    THEN {n \in DOMAIN current :
            IsManaged(current[n]) /\ n \notin DOMAIN desired}
    ELSE {}

\* all orders a set can be iterated in (HashMap iteration order)
Orders(S) ==
    {q \in [1..Cardinality(S) -> S] : \A x \in S : \E i \in DOMAIN q : q[i] = x}

Reconcile(desired, current, delete_order) ==
    [ClassifyLoop(SortedNames(DOMAIN desired), desired, current, EmptyPlan)
       EXCEPT !.to_delete = delete_order]

Range(q) == {q[i] : i \in DOMAIN q}

\* ------------------------------------------------------------------------
\* The backing tool (rclone) as the code calls it
\* ------------------------------------------------------------------------

\* the tool can read the file with the password of the environment
Decryptable(file, envpass) == ~file.enc \/ envpass = file.key

\* "rclone config dump": every section of the file with its raw key/value
\* pairs, whether or not it has a type
RECURSIVE DumpLoop(_, _, _, _)
DumpLoop(lines, dump, section, fields) ==
    LET saved == IF section # NONE THEN Put(dump, section, fields) ELSE dump IN
    IF lines = <<>> THEN saved
    ELSE LET line == Head(lines) IN
         IF line[1] = "hdr" THEN DumpLoop(Tail(lines), saved, line[2], EmptyMap)
         ELSE IF line[1] = "kv"
         THEN DumpLoop(Tail(lines), dump, section, Put(fields, line[2], line[3]))
         ELSE DumpLoop(Tail(lines), dump, section, fields)

config_dump(text) == DumpLoop(text, EmptyMap, NONE, EmptyMap)

\* serde_json::from_slice::<HashMap<String, RcloneRemote>>(..)
\* .unwrap_or_default(): remote_type has no default, so one object without
\* "type" fails the whole document and the result is the empty map
from_json(dump) ==
    IF \E n \in DOMAIN dump : "type" \notin DOMAIN dump[n]
    THEN EmptyMap
    ELSE [n \in DOMAIN dump |-> fields_to_remote(dump[n])]

\* "rclone config delete name"
RECURSIVE ToolDropSection(_, _, _)
ToolDropSection(lines, name, dropping) ==
    IF lines = <<>> THEN <<>>
    ELSE LET line == Head(lines)
             d == IF line[1] = "hdr" THEN line[2] = name ELSE dropping
         IN (IF d THEN <<>> ELSE <<line>>) \o ToolDropSection(Tail(lines), name, d)

delete_remote_via_rclone(text, name) == ToolDropSection(text, name, FALSE)

\* "rclone config create name type key=value ...": the tool replaces the
\* section of that name by the values of the argument list
create_remote_via_rclone(text, name, desired) ==
    ToolDropSection(text, name, FALSE)
      \o (IF desired.kind = "sftp"
          THEN <<Hdr(name), KV("type", "sftp"), KV("host", desired.host),
                 KV("user", desired.user)>>
               \o (IF desired.key_file # NONE
                   THEN <<KV("key_file", desired.key_file)>>
                   ELSE <<KV("ask_password", "true")>>)
               \o OptLine("ssh", desired.ssh)
               \o OptLine("server_command", desired.server_command)
               \o <<KV("description", MARKER)>>
          ELSE <<Hdr(name), KV("type", "alias"),
                 KV("remote", WithColon(desired.target)),
                 KV("description", MARKER)>>)
      \o <<Blank>>

\* ------------------------------------------------------------------------
\* get_rclone_config: the outcomes of the structured read
\* ------------------------------------------------------------------------

\* parsed: the mapping is what serde made of the output of a dump that
\* exited zero
ReadOk(map, e, prompted) ==
    [r |-> "ok", map |-> map, env |-> e, prompted |-> prompted, why |-> "read",
     retry |-> "none", parsed |-> TRUE]

ReadErr(e, prompted, why) ==
    [r |-> "err", map |-> EmptyMap, env |-> e, prompted |-> prompted, why |-> why,
     retry |-> "none", parsed |-> FALSE]

\* the stderr of the retried dump, by what it contains: the tool answers a
\* password that does not open the file with "wrong password", anything
\* else that makes it exit non-zero is "other"
RetryStderrs(file, typed) ==
    IF typed = file.key THEN {"ok", "other"} ELSE {"wrong password", "other"}

\* the test of the retry's stderr is never true
IsDecryptErrorNever(stderr) == FALSE

\* retry_stderr.contains("wrong password") || .contains("unable to decrypt")
IsDecryptError(stderr) == stderr \in {"wrong password", "unable to decrypt"}

\* get_rclone_config after the retry of the dump
AfterRetry(file, typed, stderr) ==
    IF stderr = "ok"
    THEN [ReadOk(from_json(config_dump(file.text)), typed, TRUE)
            EXCEPT !.retry = stderr]
    ELSE IF IsDecryptError(stderr)
    \* remove_var, then the error
    THEN [ReadErr(NONE, TRUE, "wrong_password") EXCEPT !.retry = stderr]
    \* the retry exits non-zero for another reason
    ELSE [ReadOk(EmptyMap, typed, TRUE) EXCEPT !.retry = stderr, !.parsed = FALSE]

get_rclone_config(file, envpass) ==
    IF Decryptable(file, envpass)
    THEN {ReadOk(from_json(config_dump(file.text)), envpass, FALSE),
          \* the dump exits non-zero for another reason
          [ReadOk(EmptyMap, envpass, FALSE) EXCEPT !.parsed = FALSE],
          \* the dump cannot be run
          ReadErr(envpass, FALSE, "dump_not_run")}
    ELSE \* "unable to decrypt configuration": prompt, set the variable, retry
         {ReadErr(envpass, FALSE, "no_password_typed")}
         \cup UNION {{AfterRetry(file, typed, stderr) :
                         stderr \in RetryStderrs(file, typed)} :
                      typed \in Passwords}

\* ------------------------------------------------------------------------
\* InMemoryConfig
\* ------------------------------------------------------------------------

NoSession ==
    [open |-> FALSE, content |-> <<>>, password |-> NONE,
     was_encrypted |-> FALSE, always_encrypt |-> FALSE,
     modified |-> FALSE, finalized |-> FALSE]

\* a session that is born modified
NewSessionModified(file, envpass, was_encrypted, always_encrypt) ==
    [open |-> TRUE, content |-> file.text, password |-> envpass,
     was_encrypted |-> was_encrypted, always_encrypt |-> always_encrypt,
     modified |-> TRUE, finalized |-> FALSE]

\* InMemoryConfig::new after a successful "rclone config show"
NewSession(file, envpass, was_encrypted, always_encrypt) ==
    [open |-> TRUE, content |-> file.text, password |-> envpass,
     was_encrypted |-> was_encrypted, always_encrypt |-> always_encrypt,
     modified |-> FALSE, finalized |-> FALSE]

\* should_encrypt without the test of the password
should_encrypt_any(s) == s.was_encrypted \/ s.always_encrypt

should_encrypt(s) == s.password # NONE /\ (s.was_encrypted \/ s.always_encrypt)

\* finalize writes only a modified session
FinalizeWrites(s) == s.modified

\* fs::write(original_path, content)
PlainFile(content) == [enc |-> FALSE, key |-> NONE, text |-> content]

\* "rclone config encryption set" on the written file
EncryptedFile(file, password) == [enc |-> TRUE, key |-> password, text |-> file.text]

\* is_config_encrypted
is_config_encrypted(file) == file.enc

\* the targets encrypt_config has a block for
Platforms == {"unix", "windows"}

\* config_path.to_str()
CONF == "rclone.conf"

\* encrypt_config: the argument vector of the subprocess it spawns and
\* what it writes to the standard input of that subprocess
encrypt_config(target, password) ==
    IF target = "unix"
    THEN [argv  |-> <<"rclone", "--config", CONF, "config", "encryption",
                      "set", "--password-command", "cat">>,
          stdin |-> password]
    ELSE [argv  |-> <<"rclone", "--config", CONF, "config", "encryption",
                      "set", "--password-command",
                      "cmd /c echo " \o password>>,
          stdin |-> NONE]

\* finalize does not look at the finalized flag
NeverFinalized(s) == FALSE

\* if self.finalized { return Ok(()) }
AlreadyFinalized(s) == s.finalized

\* use_in_memory without the test of the password
UseInMemorySyncAnyPassword(was_encrypted, always_encrypt, has_password) ==
    was_encrypted \/ always_encrypt

\* use_in_memory of sync_remotes
UseInMemorySync(was_encrypted, always_encrypt, has_password) ==
    was_encrypted \/ (always_encrypt /\ has_password)

\* the session test of purge_managed_remotes: use_in_memory && !dry_run
UseInMemoryPurge(was_encrypted, always_encrypt, has_password, dry) ==
    (was_encrypted \/ (always_encrypt /\ has_password)) /\ ~dry

\* ------------------------------------------------------------------------
\* State
\* ------------------------------------------------------------------------

VARIABLES
    op,         \* "sync" or "purge": the entry point of this run
    entries,    \* sync_remotes: entries
    cfg,        \* config.rclone: [password_path, always_encrypt]
    full_mode,  \* sync_remotes: full_mode
    dry_run,    \* dry_run
    env,        \* RCLONE_CONFIG_PASS of the process, or NONE
    disk,       \* the backing configuration file
    session,    \* in_memory_config
    current,    \* current_config
    plan,       \* to_create, to_update, to_delete, unchanged, skipped_unmanaged
    todo,       \* the operations still to apply, in the order of the loops
    counted,    \* created_names, updated_names, deleted_names
    issued,     \* every create/delete handed to a backend: <<backend, cmd, name, status>>
    reported,   \* the "Would ..." lines of a dry run: <<kind, name>>
    pc,         \* position in the entry point
    result,     \* "none" while running, then "ok" or "err"
    note,       \* why the run ended
    disk0,      \* the backing file before the run
    env0,       \* the environment before the run
    setBy,      \* who last set RCLONE_CONFIG_PASS in this run: "none", "lookup", "prompt"
    wrote,      \* fs::write on the backing file has been started
    platform,   \* the target the binary is built for: cfg(unix) or cfg(windows)
    retry,      \* get_rclone_config: how the retry of the dump ended, "none" without one
    parsed,     \* get_rclone_config: current_config is serde's reading of a dump
    writes,     \* the number of fs::write calls on the backing file
    spawned,    \* the encryption subprocesses: [argv, stdin]
    finalize_calls, \* the number of calls of finalize on the session
    buffer,     \* a text handed to the text functions on their own
    section_name,   \* the name handed with it
    removed,    \* remove_ini_section(buffer, section_name)
    recreated,  \* removed after create_remote_in_memory of the same name
    tpc         \* how far the text functions have been applied

vars == <<op, entries, cfg, full_mode, dry_run, env, disk, session, current,
          plan, todo, counted, issued, reported, pc, result, note, disk0,
          env0, setBy, wrote, platform, retry, parsed, writes, spawned,
          finalize_calls, buffer, section_name, removed, recreated, tpc>>

\* the state of the text functions applied on their own
pure == <<buffer, section_name, removed, recreated, tpc>>

inputs == <<op, entries, cfg, full_mode, dry_run, disk0, env0, platform>>

\* what the read and finalize leave behind them
effects == <<retry, parsed, writes, spawned, finalize_calls>>

\* ------------------------------------------------------------------------
\* Initial states: the inputs of one run
\* ------------------------------------------------------------------------

Entry(remote_name, host, key_file, other_aliases, server_command) ==
    [remote_name |-> remote_name, host |-> host, user |-> "u",
     key_file |-> key_file, other_aliases |-> other_aliases,
     ssh |-> NONE, server_command |-> server_command]

EntryPool ==
    {Entry("a", "h1", "/k", <<"b", "", "a">>, NONE),
     Entry("b", "h1", "", <<>>, "cmd"),
     Entry("a", "h1", "~/m", <<>>, NONE),
     Entry("", "h1", "/k", <<"b">>, NONE)}

EntryLists == UNION {[1..n -> EntryPool] : n \in 0..MaxEntries}

\* the sections a stored profile of each name can be, as the tool writes them
Section(name, body) == <<Hdr(name)>> \o body \o <<Blank>>

Bodies(name) ==
    IF name = "a"
    THEN {<<KV("type", "sftp"), KV("host", "h1"), KV("user", "u"),
            KV("key_file", "/k"), KV("description", MARKER)>>,
          <<KV("type", "sftp"), KV("host", "h1"), KV("user", "u"),
            KV("key_file", "~/m"), KV("description", MARKER)>>,
          <<KV("type", "sftp"), KV("host", "h1"), KV("user", "u"),
            KV("key_file", "/k")>>,
          <<KV("host", "h1")>>}
    ELSE {<<KV("type", "alias"), KV("remote", "a:"), KV("description", MARKER)>>,
          <<KV("type", "sftp"), KV("host", "h1"), KV("user", "u"),
            KV("ask_password", "true"), KV("server_command", "cmd"),
            KV("description", MARKER)>>,
          <<KV("type", "alias"), KV("remote", "a:"), KV("description", "mine")>>,
          <<KV("type", "alias"), KV("remote", "c:"), KV("description", MARKER)>>,
          <<KV("host", "h1")>>}

RECURSIVE TextsOver(_)
TextsOver(names) ==
    IF names = <<>> THEN {<<>>}
    ELSE LET rest == TextsOver(Tail(names)) IN
         rest \cup {Section(Head(names), b) \o t : b \in Bodies(Head(names)), t \in rest}

Texts == TextsOver(NameOrder)

Files == {[enc |-> e, key |-> IF e THEN P1 ELSE NONE, text |-> t] :
            e \in BOOLEAN, t \in Texts}

NoCounted == [created |-> <<>>, updated |-> <<>>, deleted |-> <<>>]

Init ==
    /\ op \in {"sync", "purge"}
    /\ dry_run \in BOOLEAN
    /\ full_mode \in (IF op = "sync" THEN BOOLEAN ELSE {FALSE})
    /\ entries \in (IF op = "sync" THEN EntryLists ELSE {<<>>})
    /\ disk \in Files
    /\ cfg \in [password_path : {"", "pass://x"}, always_encrypt : BOOLEAN]
    /\ env \in (IF cfg.password_path # "" THEN {NONE}
                ELSE IF disk.enc THEN {NONE} \cup Passwords ELSE {NONE, P1})
    /\ session = NoSession
    /\ current = EmptyMap
    /\ plan = EmptyPlan
    /\ todo = <<>>
    /\ counted = NoCounted
    /\ issued = <<>>
    /\ reported = <<>>
    /\ pc = "start"
    /\ result = "none"
    /\ note = "running"
    /\ disk0 = disk
    /\ env0 = env
    /\ setBy = "none"
    /\ wrote = FALSE
    /\ platform \in Platforms
    /\ retry = "none"
    /\ parsed = FALSE
    /\ writes = 0
    /\ spawned = <<>>
    /\ finalize_calls = 0
    /\ buffer = <<>>
    /\ section_name = NONE
    /\ removed = <<>>
    /\ recreated = <<>>
    /\ tpc = "idle"

\* ------------------------------------------------------------------------
\* Steps shared by the two entry points
\* ------------------------------------------------------------------------

Return(r, why) ==
    /\ pc' = "done"
    /\ result' = r
    /\ note' = why

\* proton_pass.get_item_field(password_path)
LookupResults == IF disk.enc THEN Passwords \cup {NONE} ELSE {P1, NONE}

\* the test of the entries is never true
NoEntriesNever(list) == FALSE

\* entries.is_empty()
NoEntries(list) == list = <<>>

\* sync_remotes up to the password: the two skips and the password lookup
SyncBegin ==
    /\ pc = "start" /\ op = "sync"
    /\ \E installed \in BOOLEAN, looked \in LookupResults :
         IF ~installed
         THEN Return("ok", "not_installed") /\ UNCHANGED <<env, setBy>>
         ELSE IF NoEntries(entries)
         THEN Return("ok", "no_entries") /\ UNCHANGED <<env, setBy>>
         ELSE IF cfg.password_path = ""
         THEN pc' = "open" /\ UNCHANGED <<env, setBy, result, note>>
         ELSE IF looked # NONE
         THEN /\ env' = looked /\ setBy' = "lookup"
              /\ pc' = "open" /\ UNCHANGED <<result, note>>
         ELSE Return("ok", "no_password") /\ UNCHANGED <<env, setBy>>
    /\ UNCHANGED <<inputs, pure, effects, disk, session, current, plan, todo, counted,
                   issued, reported, wrote>>

\* purge_managed_remotes up to the password
PurgeBegin ==
    /\ pc = "start" /\ op = "purge"
    /\ \E installed \in BOOLEAN, looked \in LookupResults :
         IF ~installed
         THEN Return("ok", "not_installed") /\ UNCHANGED <<env, setBy>>
         ELSE IF cfg.password_path = ""
         THEN pc' = "open" /\ UNCHANGED <<env, setBy, result, note>>
         ELSE IF looked # NONE
         THEN /\ env' = looked /\ setBy' = "lookup"
              /\ pc' = "open" /\ UNCHANGED <<result, note>>
         ELSE Return("ok", "no_password") /\ UNCHANGED <<env, setBy>>
    /\ UNCHANGED <<inputs, pure, effects, disk, session, current, plan, todo, counted,
                   issued, reported, wrote>>

\* the backend decision and InMemoryConfig::new
OpenSession ==
    /\ pc = "open"
    /\ LET was_encrypted  == is_config_encrypted(disk)
           has_password   == env # NONE
           always_encrypt == cfg.always_encrypt /\ ~dry_run
           use_in_memory  ==
               IF op = "sync"
               THEN UseInMemorySync(was_encrypted, always_encrypt, has_password)
               ELSE UseInMemoryPurge(was_encrypted, always_encrypt, has_password, dry_run)
       IN IF use_in_memory
          THEN \E shown \in BOOLEAN :
                 \* "rclone config show" succeeds when the tool can read the
                 \* file: with the password of the environment, or with one
                 \* it gets by its own means (RCLONE_PASSWORD_COMMAND)
                 IF shown
                 THEN /\ session' = NewSession(disk, env, was_encrypted, always_encrypt)
                      /\ pc' = "read" /\ UNCHANGED <<result, note>>
                 ELSE /\ Return("err", "decrypt_failed")
                      /\ UNCHANGED session
          ELSE pc' = "read" /\ UNCHANGED <<session, result, note>>
    /\ UNCHANGED <<inputs, pure, effects, env, disk, current, plan, todo, counted, issued,
                   reported, setBy, wrote>>

\* current_config through the session
ReadInMemory ==
    /\ pc = "read" /\ session.open
    /\ current' = parse_ini_config(session.content)
    /\ pc' = "plan"
    /\ UNCHANGED <<inputs, pure, effects, env, disk, session, plan, todo, counted, issued,
                   reported, result, note, setBy, wrote>>

\* current_config through get_rclone_config(None)?
ReadDirect ==
    /\ pc = "read" /\ ~session.open
    /\ \E o \in get_rclone_config(disk, env) :
         /\ env' = o.env
         /\ setBy' = IF o.prompted THEN (IF o.env = NONE THEN "none" ELSE "prompt")
                     ELSE setBy
         /\ IF o.r = "ok"
            THEN current' = o.map /\ pc' = "plan" /\ UNCHANGED <<result, note>>
            ELSE Return("err", o.why) /\ UNCHANGED current
         /\ retry' = o.retry
         /\ parsed' = o.parsed
    /\ UNCHANGED <<inputs, pure, writes, spawned, finalize_calls, disk, session,
                   plan, todo, counted, issued, reported, wrote>>

DeleteOps(names) == [i \in DOMAIN names |-> <<"delete", names[i]>>]

CreateOps(names) == [i \in DOMAIN names |-> <<"create", names[i]>>]

UpdateOps(names) == [i \in DOMAIN names |-> <<"update", names[i]>>]

\* the order the three apply loops run in
PlanOps(p) == DeleteOps(p.to_delete) \o CreateOps(p.to_create) \o UpdateOps(p.to_update)

\* the plan is applied whatever the flag says
DryRunIgnored(dry) == FALSE

\* the dry-run test after the plan
DryRunReturns(dry) == dry

\* sync_remotes: the plan, the "nothing to do" return and the dry-run report
SyncPlan ==
    /\ pc = "plan" /\ op = "sync"
    /\ LET desired == desired_remotes(entries) IN
       \E order \in Orders(DeleteNames(desired, current, full_mode)) :
         LET p == Reconcile(desired, current, order) IN
         /\ plan' = p
         /\ IF Len(PlanOps(p)) = 0
            THEN Return("ok", "up_to_date") /\ UNCHANGED <<todo, reported>>
            ELSE IF DryRunReturns(dry_run)
            THEN /\ reported' = PlanOps(p)
                 /\ Return("ok", "dry_run") /\ UNCHANGED todo
            ELSE /\ todo' = PlanOps(p)
                 /\ pc' = "apply" /\ UNCHANGED <<reported, result, note>>
    /\ UNCHANGED <<inputs, pure, effects, env, disk, session, current, counted, issued, setBy,
                   wrote>>

\* purge_managed_remotes: managed_remotes and its two returns
PurgePlan ==
    /\ pc = "plan" /\ op = "purge"
    /\ \E order \in Orders({n \in DOMAIN current : IsManaged(current[n])}) :
         LET p == [EmptyPlan EXCEPT !.to_delete = order] IN
         /\ plan' = p
         /\ IF order = <<>>
            THEN Return("ok", "none_managed") /\ UNCHANGED <<todo, reported>>
            ELSE IF DryRunReturns(dry_run)
            THEN /\ reported' = PlanOps(p)
                 /\ Return("ok", "dry_run") /\ UNCHANGED todo
            ELSE /\ todo' = PlanOps(p)
                 /\ pc' = "apply" /\ UNCHANGED <<reported, result, note>>
    /\ UNCHANGED <<inputs, pure, effects, env, disk, session, current, counted, issued, setBy,
                   wrote>>

\* ------------------------------------------------------------------------
\* The apply loops
\* ------------------------------------------------------------------------

Count(c, kind, name) ==
    IF kind = "delete" THEN [c EXCEPT !.deleted = Append(@, name)]
    ELSE IF kind = "create" THEN [c EXCEPT !.created = Append(@, name)]
    ELSE [c EXCEPT !.updated = Append(@, name)]

AfterOp == IF Tail(todo) = <<>> THEN "finalize" ELSE "apply"

\* the content of the session after one planned operation
ApplyToContent(content, kind, name, desired) ==
    IF kind = "delete" THEN delete_remote_in_memory(content, name)
    ELSE IF kind = "create" THEN create_remote_in_memory(content, name, desired)
    ELSE create_remote_in_memory(delete_remote_in_memory(content, name),
                                 name, desired)

CallsOf(backend, kind, name, sd, sc) ==
    IF kind = "delete" THEN <<<<backend, "delete", name, sd>>>>
    ELSE IF kind = "create" THEN <<<<backend, "create", name, sc>>>>
    ELSE IF sd = "spawn" THEN <<<<backend, "delete", name, sd>>>>
    ELSE <<<<backend, "delete", name, sd>>, <<backend, "create", name, sc>>>>

\* an in-memory backend that writes the buffer through to the backing
\* file after every mutation
ApplyInMemoryWriteThrough ==
    /\ pc = "apply" /\ todo # <<>> /\ session.open
    /\ LET kind == Head(todo)[1]
           name == Head(todo)[2]
           desired == desired_remotes(entries)
       IN /\ session' = [session EXCEPT
                           !.content = ApplyToContent(@, kind, name,
                                         IF kind = "delete" THEN NONE
                                         ELSE desired[name]),
                           !.modified = TRUE]
          /\ issued' = issued \o CallsOf("memory", kind, name, "ok", "ok")
          /\ counted' = Count(counted, kind, name)
    /\ disk' = PlainFile(session'.content)
    /\ todo' = Tail(todo)
    /\ pc' = AfterOp
    /\ UNCHANGED <<inputs, pure, effects, env, current, plan, reported, result, note,
                   setBy, wrote>>

\* one iteration of an apply loop on the in-memory backend
ApplyInMemory ==
    /\ pc = "apply" /\ todo # <<>> /\ session.open
    /\ LET kind == Head(todo)[1]
           name == Head(todo)[2]
           desired == desired_remotes(entries)
       IN /\ session' = [session EXCEPT
                           !.content = ApplyToContent(@, kind, name,
                                         IF kind = "delete" THEN NONE
                                         ELSE desired[name]),
                           !.modified = TRUE]
          /\ issued' = issued \o CallsOf("memory", kind, name, "ok", "ok")
          /\ counted' = Count(counted, kind, name)
    /\ todo' = Tail(todo)
    /\ pc' = AfterOp
    /\ UNCHANGED <<inputs, pure, effects, env, disk, current, plan, reported, result, note,
                   setBy, wrote>>

\* how a subprocess of the direct backend can end: it ran and exited zero,
\* it ran and exited non-zero, or it could not be run
Statuses == {"ok", "nonzero", "spawn"}

ToolDelete(text, name, status) ==
    IF status = "ok" THEN delete_remote_via_rclone(text, name) ELSE text

ToolCreate(text, name, desired, status) ==
    IF status = "ok" THEN create_remote_via_rclone(text, name, desired) ELSE text

\* one iteration of an apply loop on the direct backend; only a subprocess
\* that could not be run is an Err, the exit status is not looked at
ApplyDirect ==
    /\ pc = "apply" /\ todo # <<>> /\ ~session.open
    /\ LET kind == Head(todo)[1]
           name == Head(todo)[2]
           desired == desired_remotes(entries)
       IN \E sd \in Statuses, sc \in Statuses :
            /\ kind = "delete" => sc = "ok"
            /\ kind = "create" => sd = "ok"
            /\ sd = "spawn" => sc = "ok"
            /\ LET t1 == IF kind = "create" THEN disk.text
                         ELSE ToolDelete(disk.text, name, sd)
                   t2 == IF kind = "delete" \/ sd = "spawn" THEN t1
                         ELSE ToolCreate(t1, name, desired[name], sc)
               IN disk' = [disk EXCEPT !.text = t2]
            /\ issued' = issued \o CallsOf("direct", kind, name, sd, sc)
            /\ IF sd = "spawn" \/ sc = "spawn"
               THEN /\ Return("err", "spawn_failed")
                    /\ UNCHANGED <<todo, counted>>
               ELSE /\ counted' = Count(counted, kind, name)
                    /\ todo' = Tail(todo)
                    /\ pc' = AfterOp
                    /\ UNCHANGED <<result, note>>
    /\ UNCHANGED <<inputs, pure, effects, env, session, current, plan, reported, setBy, wrote>>

\* ------------------------------------------------------------------------
\* finalize
\* ------------------------------------------------------------------------

\* how fs::write can end: written, failed before the file was touched, or
\* failed after the file was truncated
WriteOutcomes == {"written", "untouched", "truncated"}

\* finalize up to and including fs::write
Finalize ==
    /\ pc = "finalize"
    /\ finalize_calls' = IF session.open THEN finalize_calls + 1
                         ELSE finalize_calls
    /\ IF ~session.open
       THEN Return("ok", "applied") /\ UNCHANGED <<disk, session, wrote, writes>>
       ELSE IF AlreadyFinalized(session)
       THEN Return("ok", "applied") /\ UNCHANGED <<disk, session, wrote, writes>>
       ELSE IF FinalizeWrites(session)
       THEN \E w \in WriteOutcomes :
              /\ wrote' = TRUE
              /\ writes' = writes + 1
              /\ IF w = "written"
                 THEN /\ disk' = PlainFile(session.content)
                      /\ IF should_encrypt(session)
                         THEN pc' = "encrypt" /\ UNCHANGED <<session, result, note>>
                         ELSE /\ session' = [session EXCEPT !.finalized = TRUE]
                              /\ Return("ok", "applied")
                 ELSE /\ disk' = IF w = "untouched" THEN disk ELSE PlainFile(<<>>)
                      /\ Return("err", "write_failed")
                      /\ UNCHANGED session
       ELSE /\ session' = [session EXCEPT !.finalized = TRUE]
            /\ Return("ok", "applied") /\ UNCHANGED <<disk, wrote, writes>>
    /\ UNCHANGED <<inputs, pure, retry, parsed, spawned, env, current, plan, todo,
                   counted, issued, reported, setBy>>

\* encrypt_config and the end of finalize
FinalizeEncrypt ==
    /\ pc = "encrypt"
    /\ spawned' = Append(spawned, encrypt_config(platform, session.password))
    /\ \E encrypted \in BOOLEAN :
         IF encrypted
         THEN /\ disk' = EncryptedFile(disk, session.password)
              /\ session' = [session EXCEPT !.finalized = TRUE]
              /\ Return("ok", "applied")
         ELSE /\ Return("err", "encrypt_failed")
              /\ UNCHANGED <<disk, session>>
    /\ UNCHANGED <<inputs, pure, retry, parsed, writes, finalize_calls, env, current,
                   plan, todo, counted, issued, reported, setBy, wrote>>

Next ==
    \/ SyncBegin
    \/ PurgeBegin
    \/ OpenSession
    \/ ReadInMemory
    \/ ReadDirect
    \/ SyncPlan
    \/ PurgePlan
    \/ ApplyInMemory
    \/ ApplyDirect
    \/ Finalize
    \/ FinalizeEncrypt

Spec == Init /\ [][Next]_vars

\* ------------------------------------------------------------------------
\* The session called again: a caller that holds the session of a sync
\* after finalize has returned and calls finalize on it once more
\* ------------------------------------------------------------------------

\* the runs of sync that open a session
InitSession ==
    /\ Init
    /\ op = "sync" /\ ~dry_run
    /\ \/ disk.enc
       \/ cfg.always_encrypt /\ (env # NONE \/ cfg.password_path # "")

\* cfg.finalize() on a session finalize has been called on
FinalizeAgain ==
    /\ pc = "done" /\ session.open
    /\ finalize_calls >= 1 /\ finalize_calls < MaxFinalizeCalls
    /\ pc' = "finalize" /\ result' = "none" /\ note' = "running"
    /\ UNCHANGED <<inputs, pure, effects, env, disk, session, current, plan, todo,
                   counted, issued, reported, setBy, wrote>>

NextSession ==
    \/ SyncBegin
    \/ OpenSession
    \/ ReadInMemory
    \/ SyncPlan
    \/ ApplyInMemory
    \/ Finalize
    \/ FinalizeEncrypt
    \/ FinalizeAgain

SpecSession == InitSession /\ [][NextSession]_vars

\* ------------------------------------------------------------------------
\* The text functions on their own: remove_ini_section, then
\* create_remote_in_memory of the same name (the in-memory update), on any
\* text the parser reads, headers padded with whitespace and repeated
\* headers included
\* ------------------------------------------------------------------------

HeaderShapes == {"exact", "lead", "trail"}

TextBodies ==
    {<<KV("type", "sftp"), KV("host", " h1"), KV("user", "u"),
       KV("key_file", "/k"), KV("description", MARKER)>>,
     <<KV("type", "alias"), KV("remote", "a:"), KV("description", MARKER)>>,
     <<KV("type", "sftp"), KV("host", "h1"), KV("user", "u")>>}

TextSections ==
    {<<<<"hdr", n, shape>>>> \o body \o <<Blank>> :
        n \in Names, shape \in HeaderShapes, body \in TextBodies}

RECURSIVE TextsOfLen(_)
TextsOfLen(k) ==
    IF k = 0 THEN {<<>>}
    ELSE {sec \o t : sec \in TextSections, t \in TextsOfLen(k - 1)}

Buffers == UNION {TextsOfLen(k) : k \in 0..MaxSections}

\* no entry point is running
InitText ==
    /\ op = "sync"
    /\ dry_run = FALSE
    /\ full_mode = FALSE
    /\ entries = <<>>
    /\ disk = PlainFile(<<>>)
    /\ cfg = [password_path |-> "", always_encrypt |-> FALSE]
    /\ env = NONE
    /\ session = NoSession
    /\ current = EmptyMap
    /\ plan = EmptyPlan
    /\ todo = <<>>
    /\ counted = NoCounted
    /\ issued = <<>>
    /\ reported = <<>>
    /\ pc = "start"
    /\ result = "none"
    /\ note = "running"
    /\ disk0 = disk
    /\ env0 = env
    /\ setBy = "none"
    /\ wrote = FALSE
    /\ platform = "unix"
    /\ retry = "none"
    /\ parsed = FALSE
    /\ writes = 0
    /\ spawned = <<>>
    /\ finalize_calls = 0
    /\ buffer \in Buffers
    /\ section_name \in Names
    /\ removed = <<>>
    /\ recreated = <<>>
    /\ tpc = "given"

\* the DesiredRemote a stored profile is the rendering of
DefinitionOf(remote) ==
    IF remote.remote_type = "sftp"
    THEN Sftp(remote.host, remote.user, remote.key_file, remote.ssh,
              remote.server_command)
    ELSE Alias(TrimEndColons(remote.remote))

\* the text holds the name as an owned profile with a definition
HasDefinition(map, n) ==
    /\ n \in DOMAIN map
    /\ IsManaged(map[n])
    /\ \/ map[n].remote_type = "sftp" /\ map[n].host # NONE /\ map[n].user # NONE
       \/ map[n].remote_type = "alias" /\ map[n].remote # NONE

\* delete_remote_in_memory(content, name)
RemoveSection ==
    /\ tpc = "given"
    /\ removed' = delete_remote_in_memory(buffer, section_name)
    /\ tpc' = "removed"
    /\ UNCHANGED <<inputs, effects, env, disk, session, current, plan, todo,
                   counted, issued, reported, pc, result, note, setBy, wrote,
                   buffer, section_name, recreated>>

\* create_remote_in_memory(content, name, desired) after the delete, with
\* the definition the text held for the name
Recreate ==
    /\ tpc = "removed"
    /\ HasDefinition(parse_ini_config(buffer), section_name)
    /\ recreated' = create_remote_in_memory(removed, section_name,
                        DefinitionOf(parse_ini_config(buffer)[section_name]))
    /\ tpc' = "recreated"
    /\ UNCHANGED <<inputs, effects, env, disk, session, current, plan, todo,
                   counted, issued, reported, pc, result, note, setBy, wrote,
                   buffer, section_name, removed>>

NextText ==
    \/ RemoveSection
    \/ Recreate

SpecText == InitText /\ [][NextText]_vars

\* ------------------------------------------------------------------------
\* Views of the state the properties speak about
\* ------------------------------------------------------------------------

TypeOK ==
    /\ pc \in {"start", "open", "read", "plan", "apply", "finalize", "encrypt", "done"}
    /\ result \in {"none", "ok", "err"}
    /\ (pc = "done") = (result # "none")

\* the store as the tool sees it: every section with its raw fields
Store(file) == config_dump(file.text)

\* a stored profile the program does not own: description absent or not
\* exactly the marker
Foreign(fields) == Get(fields, "description") # MARKER

\* the desired mapping of this run
Desired == desired_remotes(entries)

\* the reconciler has run in this run
Planned ==
    \/ pc \in {"apply", "finalize", "encrypt"}
    \/ pc = "done" /\ note \in {"up_to_date", "none_managed", "dry_run",
                                "applied", "spawn_failed", "write_failed",
                                "encrypt_failed"}

\* a real run that applied every planned operation and returned success
AppliedOk ==
    /\ pc = "done" /\ result = "ok" /\ note = "applied"
    /\ ~dry_run

NoDup(q) == \A i, j \in DOMAIN q : q[i] = q[j] => i = j

\* ------------------------------------------------------------------------
\* C1: every profile that is in the store before the run, has a type and
\* is not owned (description absent or different from the marker) is in the
\* store with the same type and fields in every state of the run, whatever
\* the read returned.
\* ------------------------------------------------------------------------
C1_ForeignUntouched ==
    \A n \in DOMAIN Store(disk0) :
        (Foreign(Store(disk0)[n]) /\ HasType(Store(disk0)[n])) =>
            /\ n \in DOMAIN Store(disk)
            /\ Store(disk)[n] = Store(disk0)[n]

\* ------------------------------------------------------------------------
\* C2: a run that returns an error while a session is open leaves the
\* backing file byte-identical to its contents before the run.
\* ------------------------------------------------------------------------
C2_ErrorLeavesFile ==
    (result = "err" /\ session.open) => disk = disk0

\* ------------------------------------------------------------------------
\* C3: when the store was encrypted at load and the session holds the
\* password it was opened with, the backing file is encrypted in every
\* state of the run, the state between the write and the re-encryption of
\* finalize included.
\* ------------------------------------------------------------------------
C3_NeverPlaintext ==
    (disk0.enc /\ session.open /\ session.password # NONE) => disk.enc

\* ------------------------------------------------------------------------
\* C4: while a session is open and finalize has not started its write, the
\* backing file is what it was before the run, however many in-memory
\* mutations were made and wherever the run stopped; no write is started
\* on a session that was never mutated.
\* ------------------------------------------------------------------------
C4_NoIncrementalWrite ==
    session.open =>
        /\ ~wrote => disk = disk0
        /\ ~session.modified => ~wrote

\* a session with in-memory mutations whose finalize has not started
C4_Witness ==
    /\ session.open /\ session.modified /\ ~wrote
    /\ pc = "finalize"
    /\ session.content # disk0.text

\* ------------------------------------------------------------------------
\* C5: create, update, unchanged and skip-conflict are pairwise disjoint,
\* hold no name twice, and together are exactly the desired names.
\* ------------------------------------------------------------------------
C5_Partition ==
    (op = "sync" /\ Planned) =>
        LET all == plan.to_create \o plan.to_update \o plan.unchanged
                     \o plan.skipped_unmanaged
        IN /\ NoDup(all)
           /\ Range(all) = DOMAIN Desired

\* a plan with a created and a skipped name
C5_Witness ==
    /\ op = "sync" /\ Planned
    /\ plan.to_create # <<>>
    /\ plan.skipped_unmanaged # <<>>

\* ------------------------------------------------------------------------
\* C6: in full mode to_delete is exactly the owned names of the actual
\* mapping that are not desired, so it shares no name with the other
\* buckets; without full mode it is empty, no delete is issued for a name
\* outside the desired set, and every stored profile outside the desired
\* set stays as it was while the run has not failed.
\* ------------------------------------------------------------------------
C6_DeleteBucket ==
    (op = "sync" /\ Planned) =>
        /\ NoDup(plan.to_delete)
        /\ Range(plan.to_delete) =
             (IF full_mode
              THEN {n \in DOMAIN current :
                      current[n].description = MARKER /\ n \notin DOMAIN Desired}
              ELSE {})
        /\ Range(plan.to_delete) \cap
             Range(plan.to_create \o plan.to_update \o plan.unchanged
                     \o plan.skipped_unmanaged) = {}
        /\ ~full_mode =>
             /\ \A i \in DOMAIN issued :
                  issued[i][2] = "delete" => issued[i][3] \in DOMAIN Desired
             /\ result # "err" =>
                  \A n \in DOMAIN Store(disk0) \ DOMAIN Desired :
                      /\ n \in DOMAIN Store(disk)
                      /\ Store(disk)[n] = Store(disk0)[n]

\* a full-mode plan that deletes one name and creates another
C6_Witness ==
    /\ op = "sync" /\ Planned /\ full_mode
    /\ plan.to_delete # <<>>
    /\ plan.to_create # <<>>

\* ------------------------------------------------------------------------
\* C7: after a real sync whose read and backend calls all succeeded and
\* that applied its plan, the plan computed from a new read of the store
\* for the same desired set has no create, no update and no delete: every
\* desired name is unchanged or a skip-conflict.
\* ------------------------------------------------------------------------

\* the read of this run was answered by the tool and not by a failure: it
\* is what the reader makes of the store as it was before the run
ReadSucceeded ==
    current = IF session.open THEN parse_ini_config(disk0.text)
              ELSE from_json(config_dump(disk0.text))

\* the actual state the next run reads from the store as it is now
ReRead ==
    IF UseInMemorySync(is_config_encrypted(disk), cfg.always_encrypt, env # NONE)
    THEN parse_ini_config(disk.text)
    ELSE from_json(config_dump(disk.text))

AllCallsOk == \A i \in DOMAIN issued : issued[i][4] = "ok"

C7_Idempotent ==
    (op = "sync" /\ AppliedOk /\ AllCallsOk /\ ReadSucceeded) =>
        LET again == Reconcile(Desired, ReRead, <<>>) IN
        /\ again.to_create = <<>>
        /\ again.to_update = <<>>
        /\ DeleteNames(Desired, ReRead, full_mode) = {}
        /\ DOMAIN Desired =
             Range(again.unchanged) \cup Range(again.skipped_unmanaged)

\* ------------------------------------------------------------------------
\* C8: in a dry run nothing is applied: no call reaches a backend, nothing
\* is counted as done, the buffer of an open session stays what was loaded,
\* no write and no encryption is started, and the backing file stays what
\* it was before the run.
\* ------------------------------------------------------------------------
C8_DryRunAppliesNothing ==
    dry_run =>
        /\ issued = <<>>
        /\ counted = NoCounted
        /\ todo = <<>>
        /\ ~session.modified /\ ~session.finalized
        /\ session.open => session.content = disk0.text
        /\ ~wrote /\ pc # "encrypt"
        /\ disk = disk0

\* a dry run of sync on an encrypted store that reported a plan
C8_Witness ==
    /\ dry_run /\ pc = "done" /\ note = "dry_run"
    /\ reported # <<>>
    /\ session.open

\* ------------------------------------------------------------------------
\* C9: the operations (kind and name) a dry run reports, when its read
\* succeeded, are the operations the real run on the same store, desired
\* entries, flags and password plans and applies.
\* ------------------------------------------------------------------------

\* the actual state the real run on the inputs of this run reads
RealCurrent ==
    IF UseInMemorySync(is_config_encrypted(disk0), cfg.always_encrypt, env # NONE)
    THEN parse_ini_config(disk0.text)
    ELSE from_json(config_dump(disk0.text))

\* the operations the real run on the inputs of this run applies
RealOps ==
    IF op = "sync"
    THEN Range(PlanOps(Reconcile(Desired, RealCurrent, <<>>)))
           \cup {<<"delete", n>> : n \in DeleteNames(Desired, RealCurrent, full_mode)}
    ELSE {<<"delete", n>> : n \in {m \in DOMAIN RealCurrent : IsManaged(RealCurrent[m])}}

C9_DryRunEqualsRealRun ==
    (dry_run /\ pc = "done" /\ result = "ok" /\ Planned /\ ReadSucceeded) =>
        Range(reported) = RealOps

\* ------------------------------------------------------------------------
\* C10: after a real sync that applied its plan and returned, the store
\* holds no owned sftp profile whose key file, after tilde expansion, does
\* not exist.
\* ------------------------------------------------------------------------
MissingKey(fields) ==
    /\ Get(fields, "type") = "sftp"
    /\ Get(fields, "description") = MARKER
    /\ Get(fields, "key_file") # NONE
    /\ expand_tilde(Get(fields, "key_file")) \notin ExistingFiles

C10_NoMissingKeyProfile ==
    (op = "sync" /\ AppliedOk /\ AllCallsOk) =>
        \A n \in DOMAIN Store(disk) : ~MissingKey(Store(disk)[n])

\* ------------------------------------------------------------------------
\* C11: after a real sync that applied its plan and returned, the store
\* holds no owned alias profile whose target name is not a profile of the
\* store.
\* ------------------------------------------------------------------------
DanglingAlias(fields, store) ==
    /\ Get(fields, "type") = "alias"
    /\ Get(fields, "description") = MARKER
    /\ Get(fields, "remote") # NONE
    /\ ~\E n \in DOMAIN store :
          Get(fields, "remote") \in {n, WithColon(n), WithColon(WithColon(n))}

C11_NoDanglingAlias ==
    (op = "sync" /\ AppliedOk /\ AllCallsOk) =>
        \A n \in DOMAIN Store(disk) : ~DanglingAlias(Store(disk)[n], Store(disk))

\* ------------------------------------------------------------------------
\* C12: when finalize has succeeded on a modified session the backing file
\* holds the buffer of the session; it is encrypted, with the password
\* captured at open and by one encryption subprocess, exactly when (the
\* store was encrypted at load or always_encrypt is set) and a password was
\* captured; in every other session no encryption is started.
\* ------------------------------------------------------------------------
MustEncrypt ==
    (disk0.enc \/ cfg.always_encrypt) /\ session.password # NONE

FinalizedModified ==
    /\ pc = "done" /\ result = "ok" /\ note = "applied"
    /\ session.open /\ session.modified

C13_AlwaysEncrypt ==
    (/\ pc = "done" /\ result = "ok" /\ ~dry_run
     /\ cfg.always_encrypt /\ env # NONE
     /\ Planned) => disk.enc

\* ------------------------------------------------------------------------
\* C14: a call of finalize on a session that is already finalized writes
\* no file, spawns no encryption subprocess, leaves the backing file and
\* the session as they are and returns success; the finalized flag is set
\* only by a step of finalize that returns success.
\* ------------------------------------------------------------------------
C14_FinalizeIdempotent ==
    [][/\ (pc = "finalize" /\ session.open /\ session.finalized) =>
            /\ pc' = "done" /\ result' = "ok"
            /\ disk' = disk /\ session' = session
            /\ writes' = writes /\ wrote' = wrote
            /\ spawned' = spawned
       /\ (~session.finalized /\ session'.finalized) =>
            (pc' = "done" /\ result' = "ok")]_vars

\* finalize called a second time on a session whose first finalize wrote
\* and encrypted the file: one write, one subprocess, the file as it was
C14_Witness ==
    /\ pc = "done" /\ result = "ok"
    /\ session.open /\ session.finalized /\ session.modified
    /\ finalize_calls = 2
    /\ writes = 1 /\ Len(spawned) = 1 /\ disk.enc

\* ------------------------------------------------------------------------
\* C15: a sync that finds the tool not installed, or is handed no entry,
\* or has a password_path whose lookup fails, returns success; it has
\* opened no session, read nothing, handed no operation to a backend,
\* started no write and no encryption, and the backing file is what it was.
\* ------------------------------------------------------------------------
SkippedOk ==
    /\ pc = "done" /\ result = "ok"
    /\ ~session.open /\ current = EmptyMap
    /\ issued = <<>> /\ counted = NoCounted
    /\ ~wrote /\ writes = 0 /\ spawned = <<>> /\ finalize_calls = 0
    /\ disk = disk0

C15_SoftSkips ==
    (op = "sync" /\ pc # "start") =>
        /\ note \in {"not_installed", "no_entries", "no_password"} => SkippedOk
        \* no entry was handed in
        /\ entries = <<>> => SkippedOk
        \* a password_path is configured and the lookup put nothing in the
        \* environment
        /\ (cfg.password_path # "" /\ env = NONE) => SkippedOk

\* the lookup failed for a sync that had a profile to create
C15_Witness ==
    /\ op = "sync" /\ pc = "done" /\ note = "no_password"
    /\ cfg.password_path # "" /\ env = NONE
    /\ entries # <<>> /\ DOMAIN Desired # DOMAIN Store(disk)
    /\ result = "ok"

\* ------------------------------------------------------------------------
\* C16: a real sync with an empty desired mapping that got past the tool
\* and password skips and returned success has, without full mode, left the
\* backing file as it was and, in full mode, left no owned profile in the
\* store and every foreign profile as it was.
\* ------------------------------------------------------------------------
C16_EmptyDesired ==
    (/\ op = "sync" /\ ~dry_run /\ DOMAIN Desired = {}
     /\ pc = "done" /\ result = "ok"
     /\ note \notin {"not_installed", "no_password"}) =>
        IF full_mode
        THEN /\ \A n \in DOMAIN Store(disk) : Foreign(Store(disk)[n])
             /\ \A n \in DOMAIN Store(disk0) :
                  Foreign(Store(disk0)[n]) =>
                      /\ n \in DOMAIN Store(disk)
                      /\ Store(disk)[n] = Store(disk0)[n]
        ELSE disk = disk0

\* ------------------------------------------------------------------------
\* C17: when a run ends in the error of a failed decrypt at the opening of
\* the session (the password of the environment does not open the store)
\* or of a wrong password at the retry of the dump, no value the run itself
\* put in RCLONE_CONFIG_PASS (by the password_path lookup or by the prompt)
\* is still in the environment.
\* ------------------------------------------------------------------------
C17_PasswordCleared ==
    (/\ pc = "done" /\ result = "err"
     /\ \/ note = "wrong_password"
        \/ note = "decrypt_failed" /\ ~Decryptable(disk0, env)) =>
        ~(setBy # "none" /\ env # NONE)

\* ------------------------------------------------------------------------
\* C18: when the retry of the dump is answered with "wrong password", the
\* run ends in an error: no mapping is returned, nothing is planned,
\* reported or handed to a backend; a read that went on after a successful
\* retry has the password of the store in the environment.
\* ------------------------------------------------------------------------
C18_WrongPasswordFatal ==
    /\ retry = "wrong password" =>
         /\ pc = "done" /\ result = "err" /\ note = "wrong_password"
         /\ current = EmptyMap /\ plan = EmptyPlan
         /\ reported = <<>> /\ issued = <<>> /\ todo = <<>>
         /\ disk = disk0
    /\ retry = "ok" => env = disk0.key

\* a purge on an encrypted store whose prompt was answered with a password
\* that does not open it
C18_Witness ==
    /\ retry = "wrong password"
    /\ disk0.enc /\ pc = "done" /\ result = "err"
    /\ \E n \in DOMAIN Store(disk0) : ~Foreign(Store(disk0)[n])

\* ------------------------------------------------------------------------
\* C19: on the direct backend, when the apply loops have ended, every
\* operation of the plan has been handed to the tool, whatever became of
\* the ones before it, and no operation whose subprocess exited non-zero
\* or could not be run is counted as created, updated or deleted.
\* ------------------------------------------------------------------------
C19_PerItemFailure ==
    (/\ ~session.open /\ ~dry_run
     /\ pc = "done" /\ note \in {"applied", "spawn_failed"}) =>
        /\ \A o \in Range(PlanOps(plan)) :
             \E i \in DOMAIN issued : issued[i][3] = o[2]
        /\ \A i \in DOMAIN issued :
             issued[i][4] # "ok" =>
                 issued[i][3] \notin Range(counted.created \o counted.updated
                                             \o counted.deleted)

\* ------------------------------------------------------------------------
\* C20: the argument vector of every encryption subprocess is the one it
\* would be for any other password: the password is in none of its
\* arguments, on either platform.
\* ------------------------------------------------------------------------
C20_PasswordNotInArgv ==
    \A i \in DOMAIN spawned :
        \A p \in Passwords :
            spawned[i].argv = encrypt_config(platform, p).argv

\* ------------------------------------------------------------------------
\* C21: a real purge whose calls all succeeded and that returned success
\* past the tool and password skips has left no owned profile in the store
\* and every foreign profile as it was; the deletes it issued are for
\* exactly the names whose description is the marker, whatever the entries
\* are, and a session it mutated is finalized.
\* ------------------------------------------------------------------------
OwnedNames(store) == {n \in DOMAIN store : ~Foreign(store[n])}

C21_PurgeRemovesOwned ==
    (/\ op = "purge" /\ ~dry_run
     /\ pc = "done" /\ result = "ok"
     /\ note \notin {"not_installed", "no_password"}
     /\ AllCallsOk /\ ReadSucceeded) =>
        /\ OwnedNames(Store(disk)) = {}
        /\ \A n \in DOMAIN Store(disk0) :
             Foreign(Store(disk0)[n]) =>
                 /\ n \in DOMAIN Store(disk)
                 /\ Store(disk)[n] = Store(disk0)[n]
        /\ {issued[i][3] : i \in DOMAIN issued} = OwnedNames(Store(disk0))
        /\ \A i \in DOMAIN issued : issued[i][2] = "delete"
        /\ session.modified => session.finalized

SameConnection(existing, desired) ==
    /\ desired.kind = "sftp" /\ existing.remote_type = "sftp"
    /\ \A f \in {"host", "user", "key_file", "ssh", "server_command"} :
          existing[f] = desired[f]

SameAlias(existing, desired) ==
    /\ desired.kind = "alias" /\ existing.remote_type = "alias"
    /\ existing.remote \in {desired.target, WithColon(desired.target),
                            WithColon(WithColon(desired.target))}

C23_Classification ==
    (op = "sync" /\ Planned) =>
        \A n \in DOMAIN Desired :
            LET present == n \in DOMAIN current
                owned   == present /\ current[n].description = MARKER
                same    == owned /\ (\/ SameConnection(current[n], Desired[n])
                                     \/ SameAlias(current[n], Desired[n]))
            IN /\ (n \in Range(plan.to_create)) = ~present
               /\ (n \in Range(plan.skipped_unmanaged)) = (present /\ ~owned)
               /\ (n \in Range(plan.unchanged)) = same
               /\ (n \in Range(plan.to_update)) = (owned /\ ~same)

\* a plan that updates an owned profile of another type than the desired
\* one and one that differs on a field, next to an unchanged name
C23_Witness ==
    /\ op = "sync" /\ Planned
    /\ \E n \in Range(plan.to_update) :
          current[n].remote_type = "alias" /\ Desired[n].kind = "sftp"
    /\ \E n \in Range(plan.to_update) :
          current[n].remote_type = "sftp" /\ Desired[n].kind = "sftp"

\* ------------------------------------------------------------------------
\* C24: after a real sync that applied its plan and returned success, every
\* name counted as created or updated is in the store, owned, with the type
\* and the fields of its desired definition, on either backend.
\* ------------------------------------------------------------------------
StoredAsDesired(n) ==
    /\ n \in DOMAIN Store(disk)
    /\ Get(Store(disk)[n], "description") = MARKER
    /\ HasType(Store(disk)[n])
    /\ LET stored == fields_to_remote(Store(disk)[n]) IN
       \/ SameConnection(stored, Desired[n])
       \/ SameAlias(stored, Desired[n])

C24_ReportedExist ==
    (op = "sync" /\ AppliedOk) =>
        \A n \in Range(counted.created \o counted.updated) : StoredAsDesired(n)

SameMapping(p, q) ==
    /\ DOMAIN p = DOMAIN q
    /\ \A m \in DOMAIN p : p[m] = q[m]

C26_RoundTrip ==
    tpc = "recreated" =>
        SameMapping(parse_ini_config(recreated), parse_ini_config(buffer))

\* ------------------------------------------------------------------------
\* C29: for every text the parser reads and every name, the parsed mapping
\* of the text after remove_ini_section of the name is the parsed mapping
\* of the text without the name: the name is gone and every other name
\* has the type and fields it had.
\* ------------------------------------------------------------------------
C29_RemoverAgreesWithParser ==
    tpc \in {"removed", "recreated"} =>
        LET before == parse_ini_config(buffer)
            after  == parse_ini_config(removed)
        IN /\ DOMAIN after = DOMAIN before \ {section_name}
           /\ \A m \in DOMAIN after : after[m] = before[m]

\* ------------------------------------------------------------------------
\* C27: a dry run of sync or of purge never has a Config Session open and
\* never ends in an error: no fatal decrypt, no error of the read after the
\* password prompt, no write error.
\* ------------------------------------------------------------------------

C27_DryRunNeverFatal ==
    dry_run => /\ ~session.open
               /\ result # "err"

\* ------------------------------------------------------------------------
\* C28: the structured read fails its caller only for the wrong password:
\* a dump that cannot be run, like one that exits non-zero, gives the
\* empty mapping; and when serde reads the output of a dump that exited
\* zero, every entry of the dump that has a type is in the mapping it
\* returns, whatever the other entries look like.
\* ------------------------------------------------------------------------

\* the errors get_rclone_config returns to its caller
ReaderErrors == {"dump_not_run", "no_password_typed", "wrong_password"}

\* the entries of a dump serde can read as a RcloneRemote
WellFormed(dump) == {n \in DOMAIN dump : "type" \in DOMAIN dump[n]}

C28_ReaderNeverFails ==
    /\ (pc = "done" /\ result = "err" /\ note \in ReaderErrors) =>
           note = "wrong_password"
    /\ (parsed /\ pc = "plan") =>
           LET dump == config_dump(disk0.text) IN
           \A n \in WellFormed(dump) :
               /\ n \in DOMAIN current
               /\ current[n] = fields_to_remote(dump[n])

\* ------------------------------------------------------------------------
\* C30: when the store was encrypted as the session was opened, the backing
\* file is encrypted after every finalize that returned success, whether
\* or not the session captured a password from the environment.
\* ------------------------------------------------------------------------

C30_EncryptionKept ==
    (session.open /\ session.was_encrypted /\ session.finalized
       /\ pc = "done" /\ result = "ok") => disk.enc

====
